---- MODULE Spec2Model ----
(* Model of weatherStation.py: the sampler loop (lines 131-177), the report *)
(* writer append_to_excel (lines 93-128) and create_scatter_plots (34-90).  *)
(* Program counters are named after the source line they stand before.      *)
EXTENDS Integers, Sequences, FiniteSets, TLC

VARIABLES pc, caller, now, last_record_time, current_time, data_records,
          data, timestamp, df, file, workbook, start_row, fig,
          interrupted, logged, iter, nLoop, nFinal, call, startAbsent

vars == <<pc, caller, now, last_record_time, current_time, data_records,
          data, timestamp, df, file, workbook, start_row, fig,
          interrupted, logged, iter, nLoop, nFinal, call, startAbsent>>

(* ---------------- bounds ---------------- *)
(* MaxSamples: samples taken in one run (the loop itself never stops).     *)
(* MaxWork: whole seconds the start-up and one sensor read may take; the   *)
(* clock is otherwise advanced only by the sleep.                          *)
(* MaxLen: longest frame handed to create_scatter_plots on its own.        *)
MaxSamples == 2
MaxWork == 1
MaxLen == 3

(* ---------------- program constants ---------------- *)
record_interval == 30
sleep_seconds == 55

(* ---------------- values ---------------- *)
NaN == -1

isnull(v) == v = NaN

Columns == <<"Time", "Temperature", "Humidity", "Pressure">>

EmptyRecords == [Time |-> <<>>, Temperature |-> <<>>, Humidity |-> <<>>, Pressure |-> <<>>]

SensorSamples == { [temperature |-> 22, humidity |-> 55, pressure |-> 1013],
                   [temperature |-> 23, humidity |-> 56, pressure |-> 1012] }

NoData == [temperature |-> 0, humidity |-> 0, pressure |-> 0]

(* pd.DataFrame(dict of lists) raises ValueError when the lists differ in length *)
Ragged(d) ==
  \E c1 \in 1..4, c2 \in 1..4 : Len(d[Columns[c1]]) # Len(d[Columns[c2]])

DataFrame(d) == d

FrameLen(f) == Len(f.Time)

(* df.iloc[r, col] with a 0-based column and a 1-based row here *)
iloc(f, r, col) == f[Columns[col + 1]][r]

HeaderRow == [kind |-> "header"]

DataRow(f, r) == [kind |-> "data", cells |-> [c \in 1..4 |-> iloc(f, r, c - 1)]]

(* df.to_excel(index=False): a header row, then one row per record *)
to_excel(f) == <<HeaderRow>> \o [r \in 1..FrameLen(f) |-> DataRow(f, r)]

(* ---------------- the report file ---------------- *)
Absent == [exists |-> FALSE, corrupt |-> FALSE, rows |-> <<>>, images |-> <<>>]

Corrupt == [exists |-> TRUE, corrupt |-> TRUE, rows |-> <<>>, images |-> <<>>]

NoWorkbook == [rows |-> <<>>, images |-> <<>>]

NoFig == <<>>

(* ---------------- create_scatter_plots ---------------- *)
RECURSIVE SumNotNull(_)
SumNotNull(s) ==
  IF s = <<>> THEN 0
  ELSE (IF isnull(Head(s)) THEN 0 ELSE Head(s)) + SumNotNull(Tail(s))

CountNotNull(s) == Cardinality({i \in 1..Len(s) : ~isnull(s[i])})

(* Series.mean() skips missing values; kept as the pair (sum, count) *)
mean(s) == <<SumNotNull(s), CountNotNull(s)>>

any_isnull(s) == \E i \in 1..Len(s) : isnull(s[i])

(* the humidity and pressure blocks test the temperature series again *)
create_scatter_plots_copied_check(f) ==
  LET y_temp == f.Temperature
      ax(title, y) == [title |-> title, scatter |-> y, axhline |-> mean(y),
                       artists |-> {"scatter", "axhline"} \cup
                          (IF FrameLen(f) > 1 /\ ~any_isnull(y_temp) THEN {"trend"} ELSE {})]
  IN <<ax("Temperature Over Time", f.Temperature),
       ax("Humidity Over Time", f.Humidity),
       ax("Pressure Over Time", f.Pressure)>>

create_scatter_plots(f) ==
  LET x_temp == FrameLen(f)
      y_temp == f.Temperature
      y_humidity == f.Humidity
      y_pressure == f.Pressure
      ax0 == [title |-> "Temperature Over Time",
              scatter |-> f.Temperature,
              axhline |-> mean(f.Temperature),
              artists |-> {"scatter", "axhline"} \cup
                 (IF FrameLen(f) > 1 /\ ~any_isnull(y_temp) THEN {"trend"} ELSE {})]
      ax1 == [title |-> "Humidity Over Time",
              scatter |-> f.Humidity,
              axhline |-> mean(f.Humidity),
              artists |-> {"scatter", "axhline"} \cup
                 (IF FrameLen(f) > 1 /\ ~any_isnull(y_humidity) THEN {"trend"} ELSE {})]
      ax2 == [title |-> "Pressure Over Time",
              scatter |-> f.Pressure,
              axhline |-> mean(f.Pressure),
              artists |-> {"scatter", "axhline"} \cup
                 (IF FrameLen(f) > 1 /\ ~any_isnull(y_pressure) THEN {"trend"} ELSE {})]
  IN <<ax0, ax1, ax2>>

(* ---------------- image removal loop (lines 113-114) ---------------- *)
RemoveAt(s, i) == [k \in 1..(Len(s) - 1) |-> IF k < i THEN s[k] ELSE s[k + 1]]

(* "for image in sheet._images: sheet._images.remove(image)": the list       *)
(* iterator keeps an index while the list shrinks under it                    *)
RECURSIVE remove_images_loop(_, _)
remove_images_loop(images, i) ==
  IF i > Len(images) THEN images
  ELSE remove_images_loop(RemoveAt(images, i), i + 1)

(* sheet.cell(row=r, ...) for the four columns of row r *)
set_row(rows, r, row) ==
  [k \in 1..(IF r > Len(rows) THEN r ELSE Len(rows)) |->
     IF k = r THEN row ELSE IF k <= Len(rows) THEN rows[k] ELSE [kind |-> "empty"]]

(* ---------------- report files left by an earlier run ---------------- *)
PriorReading == [Time |-> <<0>>, Temperature |-> <<21>>, Humidity |-> <<54>>, Pressure |-> <<1014>>]

PriorImage == [anchor |-> 3, fig |-> create_scatter_plots(PriorReading)]

PriorFiles ==
  { [exists |-> TRUE, corrupt |-> FALSE, rows |-> to_excel(EmptyRecords), images |-> <<>>],
    [exists |-> TRUE, corrupt |-> FALSE, rows |-> to_excel(PriorReading), images |-> <<>>],
    [exists |-> TRUE, corrupt |-> FALSE,
     rows |-> Append(to_excel(PriorReading), DataRow(PriorReading, 1)),
     images |-> <<PriorImage>>] }

NoCall == [caller |-> "none", status |-> "none", existed |-> FALSE,
           pre |-> Absent, df |-> EmptyRecords, at |-> "none"]

(* ---------------- initial state: line 134, about to enter the try ------ *)
Init ==
  /\ pc = "L135"
  /\ caller = "none"
  /\ now = 0
  /\ last_record_time = 0
  /\ current_time = 0
  /\ data_records = EmptyRecords
  /\ data = NoData
  /\ timestamp = 0
  /\ df = EmptyRecords
  /\ file \in {Absent} \cup PriorFiles
  /\ workbook = NoWorkbook
  /\ start_row = 0
  /\ fig = NoFig
  /\ interrupted = FALSE
  /\ logged = FALSE
  /\ iter = 0
  /\ nLoop = 0
  /\ nFinal = 0
  /\ call = NoCall
  /\ startAbsent = ~file.exists

(* program counters inside the try body, the writer's included *)
LoopPcs == {"L135", "L137", "L140", "L149", "L150", "L151", "L152", "L158",
            "L160", "L163", "L166"}

WriterPcs == {"L94", "L95", "L99", "L106", "L109", "L113", "L117", "L124", "L128"}

(* where control goes when append_to_excel returns / raises *)
ReturnPc == IF caller = "loop" THEN "L163" ELSE "L174"

RaisePc == IF caller = "loop" THEN "L176" ELSE "crashed"

Returned == [call EXCEPT !.status = "returned"]

Raised(at) == [call EXCEPT !.status = "raised", !.at = at]

(* ---------------- sampler loop ---------------- *)
Start ==
  /\ pc = "L135"
  /\ \E d \in 0..MaxWork : now' = now + d
  /\ pc' = "L137"
  /\ UNCHANGED <<caller, last_record_time, current_time, data_records, data,
                 timestamp, df, file, workbook, start_row, fig, interrupted,
                 logged, iter, nLoop, nFinal, call, startAbsent>>

Check ==
  /\ pc = "L137"
  /\ Len(data_records.Time) < MaxSamples   \* bound of the model, not of the code
  /\ current_time' = now
  /\ iter' = iter + 1
  /\ pc' = IF now >= last_record_time + record_interval THEN "L140" ELSE "L166"
  /\ UNCHANGED <<caller, now, last_record_time, data_records, data, timestamp,
                 df, file, workbook, start_row, fig, interrupted, logged,
                 nLoop, nFinal, call, startAbsent>>

ReadSensor ==
  /\ pc = "L140"
  /\ \/ /\ \E s \in SensorSamples : data' = s
        /\ \E d \in 0..MaxWork : now' = now + d
        /\ timestamp' = now'
        /\ pc' = "L149"
     \/ /\ pc' = "L176"
        /\ UNCHANGED <<data, now, timestamp>>
  /\ UNCHANGED <<caller, last_record_time, current_time, data_records, df, file,
                 workbook, start_row, fig, interrupted, logged, iter, nLoop,
                 nFinal, call, startAbsent>>

AppendTime ==
  /\ pc = "L149"
  /\ data_records' = [data_records EXCEPT !.Time = Append(@, timestamp)]
  /\ pc' = "L150"
  /\ UNCHANGED <<caller, now, last_record_time, current_time, data, timestamp,
                 df, file, workbook, start_row, fig, interrupted, logged, iter,
                 nLoop, nFinal, call, startAbsent>>

AppendTemperature ==
  /\ pc = "L150"
  /\ data_records' = [data_records EXCEPT !.Temperature = Append(@, data.temperature)]
  /\ pc' = "L151"
  /\ UNCHANGED <<caller, now, last_record_time, current_time, data, timestamp,
                 df, file, workbook, start_row, fig, interrupted, logged, iter,
                 nLoop, nFinal, call, startAbsent>>

AppendHumidity ==
  /\ pc = "L151"
  /\ data_records' = [data_records EXCEPT !.Humidity = Append(@, data.humidity)]
  /\ pc' = "L152"
  /\ UNCHANGED <<caller, now, last_record_time, current_time, data, timestamp,
                 df, file, workbook, start_row, fig, interrupted, logged, iter,
                 nLoop, nFinal, call, startAbsent>>

AppendPressure ==
  /\ pc = "L152"
  /\ data_records' = [data_records EXCEPT !.Pressure = Append(@, data.pressure)]
  /\ pc' = "L158"
  /\ UNCHANGED <<caller, now, last_record_time, current_time, data, timestamp,
                 df, file, workbook, start_row, fig, interrupted, logged, iter,
                 nLoop, nFinal, call, startAbsent>>

MakeFrame ==
  /\ pc = "L158"
  /\ df' = DataFrame(data_records)
  /\ pc' = "L160"
  /\ UNCHANGED <<caller, now, last_record_time, current_time, data_records, data,
                 timestamp, file, workbook, start_row, fig, interrupted, logged,
                 iter, nLoop, nFinal, call, startAbsent>>

CallWriterLoop ==
  /\ pc = "L160"
  /\ caller' = "loop"
  /\ nLoop' = nLoop + 1
  /\ call' = [caller |-> "loop", status |-> "running", existed |-> file.exists,
              pre |-> file, df |-> df, at |-> "none"]
  /\ pc' = "L94"
  /\ UNCHANGED <<now, last_record_time, current_time, data_records, data,
                 timestamp, df, file, workbook, start_row, fig, interrupted,
                 logged, iter, nFinal, startAbsent>>

UpdateLast ==
  /\ pc = "L163"
  /\ last_record_time' = current_time
  /\ pc' = "L166"
  /\ UNCHANGED <<caller, now, current_time, data_records, data, timestamp, df,
                 file, workbook, start_row, fig, interrupted, logged, iter,
                 nLoop, nFinal, call, startAbsent>>

(* a sleep shorter than record_interval *)
Sleep_short ==
  /\ pc = "L166"
  /\ now' = now + 5
  /\ pc' = "L137"
  /\ UNCHANGED <<caller, last_record_time, current_time, data_records, data,
                 timestamp, df, file, workbook, start_row, fig, interrupted,
                 logged, iter, nLoop, nFinal, call, startAbsent>>

Sleep ==
  /\ pc = "L166"
  /\ now' = now + sleep_seconds
  /\ pc' = "L137"
  /\ UNCHANGED <<caller, last_record_time, current_time, data_records, data,
                 timestamp, df, file, workbook, start_row, fig, interrupted,
                 logged, iter, nLoop, nFinal, call, startAbsent>>

(* ---------------- append_to_excel (lines 93-128) ---------------- *)
(* workbook, start_row and fig are locals of append_to_excel: they are   *)
(* gone when the call returns, raises or is unwound by an interrupt      *)
Exists ==
  /\ pc = "L94"
  /\ pc' = IF file.exists THEN "L95" ELSE "L99"
  /\ UNCHANGED <<caller, now, last_record_time, current_time, data_records, data,
                 timestamp, df, file, workbook, start_row, fig, interrupted,
                 logged, iter, nLoop, nFinal, call, startAbsent>>

(* load_workbook reads the rows and the embedded images; it raises on a     *)
(* truncated file and may raise on any I/O error                            *)
LoadWorkbook ==
  /\ pc = "L95"
  /\ \/ /\ ~file.corrupt
        /\ workbook' = [rows |-> file.rows, images |-> file.images]
        /\ pc' = "L106"
        /\ UNCHANGED call
     \/ /\ pc' = RaisePc
        /\ call' = Raised("L95")
        /\ UNCHANGED workbook
  /\ UNCHANGED <<caller, now, last_record_time, current_time, data_records, data,
                 timestamp, df, file, start_row, fig, interrupted, logged, iter,
                 nLoop, nFinal, startAbsent>>

(* lines 99-103: the whole frame as a fresh table, no image, then return *)
CreateWorkbook ==
  /\ pc = "L99"
  /\ \/ /\ file' = [exists |-> TRUE, corrupt |-> FALSE, rows |-> to_excel(df),
                    images |-> <<>>]
        /\ call' = Returned
        /\ pc' = ReturnPc
     \/ /\ file' \in {file, Corrupt}
        /\ call' = Raised("L99")
        /\ pc' = RaisePc
  /\ UNCHANGED <<caller, now, last_record_time, current_time, data_records, data,
                 timestamp, df, workbook, start_row, fig, interrupted, logged,
                 iter, nLoop, nFinal, startAbsent>>

StartRow ==
  /\ pc = "L106"
  /\ start_row' = Len(workbook.rows) + 1
  /\ pc' = "L109"
  /\ UNCHANGED <<caller, now, last_record_time, current_time, data_records, data,
                 timestamp, df, file, workbook, fig, interrupted, logged, iter,
                 nLoop, nFinal, call, startAbsent>>

(* writes df.iloc[0] instead of df.iloc[-1] *)
WriteRow_first_record ==
  /\ pc = "L109"
  /\ IF FrameLen(df) = 0
     THEN /\ pc' = RaisePc
          /\ call' = Raised("L109")
          /\ workbook' = NoWorkbook
          /\ start_row' = 0
     ELSE /\ workbook' = [workbook EXCEPT !.rows = set_row(@, start_row, DataRow(df, 1))]
          /\ pc' = "L113"
          /\ UNCHANGED <<call, start_row>>
  /\ UNCHANGED <<caller, now, last_record_time, current_time, data_records, data,
                 timestamp, df, file, fig, interrupted, logged, iter,
                 nLoop, nFinal, startAbsent>>

(* writes the row straight into the persisted file as well *)
WriteRow_write_through ==
  /\ pc = "L109"
  /\ IF FrameLen(df) = 0
     THEN /\ pc' = RaisePc
          /\ call' = Raised("L109")
          /\ workbook' = NoWorkbook
          /\ start_row' = 0
          /\ UNCHANGED file
     ELSE /\ workbook' = [workbook EXCEPT
                            !.rows = set_row(@, start_row, DataRow(df, FrameLen(df)))]
          /\ file' = [file EXCEPT !.rows = workbook'.rows]
          /\ pc' = "L113"
          /\ UNCHANGED <<call, start_row>>
  /\ UNCHANGED <<caller, now, last_record_time, current_time, data_records, data,
                 timestamp, df, fig, interrupted, logged, iter,
                 nLoop, nFinal, startAbsent>>

(* lines 109-110: df.iloc[-1, col] raises IndexError on an empty frame *)
WriteRow ==
  /\ pc = "L109"
  /\ IF FrameLen(df) = 0
     THEN /\ pc' = RaisePc
          /\ call' = Raised("L109")
          /\ workbook' = NoWorkbook
          /\ start_row' = 0
     ELSE /\ workbook' = [workbook EXCEPT
                            !.rows = set_row(@, start_row, DataRow(df, FrameLen(df)))]
          /\ pc' = "L113"
          /\ UNCHANGED <<call, start_row>>
  /\ UNCHANGED <<caller, now, last_record_time, current_time, data_records, data,
                 timestamp, df, file, fig, interrupted, logged, iter,
                 nLoop, nFinal, startAbsent>>

(* the removal loop is left out: the old image stays *)
RemoveImages_keep ==
  /\ pc = "L113"
  /\ pc' = "L117"
  /\ UNCHANGED <<caller, now, last_record_time, current_time, data_records, data,
                 timestamp, df, file, workbook, start_row, fig, interrupted,
                 logged, iter, nLoop, nFinal, call, startAbsent>>

RemoveImages ==
  /\ pc = "L113"
  /\ workbook' = [workbook EXCEPT !.images = remove_images_loop(@, 1)]
  /\ pc' = "L117"
  /\ UNCHANGED <<caller, now, last_record_time, current_time, data_records, data,
                 timestamp, df, file, start_row, fig, interrupted, logged, iter,
                 nLoop, nFinal, call, startAbsent>>

(* lines 117-122: render the three charts to the image stream *)
RenderPlot ==
  /\ pc = "L117"
  /\ \/ /\ fig' = create_scatter_plots(df)
        /\ pc' = "L124"
        /\ UNCHANGED <<call, workbook, start_row>>
     \/ /\ pc' = RaisePc
        /\ call' = Raised("L117")
        /\ workbook' = NoWorkbook
        /\ start_row' = 0
        /\ UNCHANGED fig
  /\ UNCHANGED <<caller, now, last_record_time, current_time, data_records, data,
                 timestamp, df, file, interrupted, logged, iter, nLoop, nFinal,
                 startAbsent>>

(* lines 124-126: Image(image_stream), anchor, sheet.add_image *)
EmbedImage ==
  /\ pc = "L124"
  /\ \/ /\ workbook' = [workbook EXCEPT
                          !.images = Append(@, [anchor |-> start_row, fig |-> fig])]
        /\ pc' = "L128"
        /\ UNCHANGED <<call, start_row, fig>>
     \/ /\ pc' = RaisePc
        /\ call' = Raised("L124")
        /\ workbook' = NoWorkbook
        /\ start_row' = 0
        /\ fig' = NoFig
  /\ UNCHANGED <<caller, now, last_record_time, current_time, data_records, data,
                 timestamp, df, file, interrupted, logged, iter, nLoop, nFinal,
                 startAbsent>>

(* line 128: the only step of the existing-file path that touches the file; *)
(* a failed save leaves the old file or a truncated one                     *)
SaveWorkbook ==
  /\ pc = "L128"
  /\ \/ /\ file' = [exists |-> TRUE, corrupt |-> FALSE, rows |-> workbook.rows,
                    images |-> workbook.images]
        /\ call' = Returned
        /\ pc' = ReturnPc
     \/ /\ file' \in {file, Corrupt}
        /\ call' = Raised("L128")
        /\ pc' = RaisePc
  /\ workbook' = NoWorkbook
  /\ start_row' = 0
  /\ fig' = NoFig
  /\ UNCHANGED <<caller, now, last_record_time, current_time, data_records, data,
                 timestamp, df, interrupted, logged, iter, nLoop, nFinal,
                 startAbsent>>

(* ---------------- except KeyboardInterrupt (lines 168-174) ------------- *)
(* Ctrl-C raises KeyboardInterrupt at a statement boundary of the try body *)
KeyboardInterrupt ==
  /\ ~interrupted
  /\ \/ pc \in LoopPcs
     \/ pc \in WriterPcs /\ caller = "loop"
  /\ interrupted' = TRUE
  /\ call' = IF call.status = "running"
             THEN [call EXCEPT !.status = "interrupted", !.at = pc] ELSE call
  /\ pc' = "L169"
  /\ workbook' = NoWorkbook
  /\ start_row' = 0
  /\ fig' = NoFig
  /\ UNCHANGED <<caller, now, last_record_time, current_time, data_records, data,
                 timestamp, df, file, logged, iter, nLoop, nFinal, startAbsent>>

LogStopped ==
  /\ pc = "L169"
  /\ pc' = "L171"
  /\ UNCHANGED <<caller, now, last_record_time, current_time, data_records, data,
                 timestamp, df, file, workbook, start_row, fig, interrupted,
                 logged, iter, nLoop, nFinal, call, startAbsent>>

(* line 171: the DataFrame constructor raises inside the handler when the  *)
(* four lists differ in length; nothing catches it there                   *)
FinalFrame ==
  /\ pc = "L171"
  /\ IF Ragged(data_records)
     THEN pc' = "crashed" /\ UNCHANGED df
     ELSE df' = DataFrame(data_records) /\ pc' = "L173"
  /\ UNCHANGED <<caller, now, last_record_time, current_time, data_records, data,
                 timestamp, file, workbook, start_row, fig, interrupted, logged,
                 iter, nLoop, nFinal, call, startAbsent>>

CallWriterFinal ==
  /\ pc = "L173"
  /\ caller' = "final"
  /\ nFinal' = nFinal + 1
  /\ call' = [caller |-> "final", status |-> "running", existed |-> file.exists,
              pre |-> file, df |-> df, at |-> "none"]
  /\ pc' = "L94"
  /\ UNCHANGED <<now, last_record_time, current_time, data_records, data,
                 timestamp, df, file, workbook, start_row, fig, interrupted,
                 logged, iter, nLoop, startAbsent>>

LogSaved ==
  /\ pc = "L174"
  /\ pc' = "done"
  /\ UNCHANGED <<caller, now, last_record_time, current_time, data_records, data,
                 timestamp, df, file, workbook, start_row, fig, interrupted,
                 logged, iter, nLoop, nFinal, call, startAbsent>>

(* the handler goes on to the final flush of the interrupt handler *)
ExceptException_flush ==
  /\ pc = "L176"
  /\ logged' = TRUE
  /\ pc' = "L171"
  /\ UNCHANGED <<caller, now, last_record_time, current_time, data_records, data,
                 timestamp, df, file, workbook, start_row, fig, interrupted,
                 iter, nLoop, nFinal, call, startAbsent>>

(* ---------------- except Exception (lines 176-177) ---------------- *)
ExceptException ==
  /\ pc = "L176"
  /\ logged' = TRUE
  /\ pc' = "done"
  /\ UNCHANGED <<caller, now, last_record_time, current_time, data_records, data,
                 timestamp, df, file, workbook, start_row, fig, interrupted,
                 iter, nLoop, nFinal, call, startAbsent>>

Next ==
  \/ Start \/ Check \/ ReadSensor
  \/ AppendTime \/ AppendTemperature \/ AppendHumidity \/ AppendPressure
  \/ MakeFrame \/ CallWriterLoop \/ UpdateLast \/ Sleep
  \/ Exists \/ LoadWorkbook \/ CreateWorkbook \/ StartRow \/ WriteRow
  \/ RemoveImages \/ RenderPlot \/ EmbedImage \/ SaveWorkbook
  \/ KeyboardInterrupt \/ LogStopped \/ FinalFrame \/ CallWriterFinal \/ LogSaved
  \/ ExceptException

Spec == Init /\ [][Next]_vars

(* ---------------- create_scatter_plots on its own ---------------- *)
PlotValues == {20, NaN}

FramesOfLen(n) ==
  { [Time |-> [i \in 1..n |-> i], Temperature |-> t, Humidity |-> h, Pressure |-> p] :
      t \in [1..n -> PlotValues], h \in [1..n -> PlotValues], p \in [1..n -> PlotValues] }

BoundedFrames == UNION { FramesOfLen(n) : n \in 0..MaxLen }

InitPlots ==
  /\ pc = "plots"
  /\ df \in BoundedFrames
  /\ fig = NoFig
  /\ caller = "none"
  /\ now = 0
  /\ last_record_time = 0
  /\ current_time = 0
  /\ data_records = EmptyRecords
  /\ data = NoData
  /\ timestamp = 0
  /\ file = Absent
  /\ workbook = NoWorkbook
  /\ start_row = 0
  /\ interrupted = FALSE
  /\ logged = FALSE
  /\ iter = 0
  /\ nLoop = 0
  /\ nFinal = 0
  /\ call = NoCall
  /\ startAbsent = TRUE

ApplyPlots ==
  /\ pc = "plots"
  /\ fig' = create_scatter_plots(df)
  /\ pc' = "plotted"
  /\ UNCHANGED <<caller, now, last_record_time, current_time, data_records, data,
                 timestamp, df, file, workbook, start_row, interrupted, logged,
                 iter, nLoop, nFinal, call, startAbsent>>

NextPlots == ApplyPlots

SpecPlots == InitPlots /\ [][NextPlots]_vars

(* ======================= claims ======================= *)
ReturnPcs == {"L163", "L174"}

DataRowCount(rows) == Cardinality({i \in 1..Len(rows) : rows[i].kind = "data"})

Last(q) == q[Len(q)]

(* C1: starting from an absent report file, after every completed          *)
(* append_to_excel call (from the loop or as the final write) the number   *)
(* of data rows in the report equals the number of Readings appended to    *)
(* the record set so far.                                                  *)
C1_RowCountEqualsReadings ==
  (startAbsent /\ pc \in ReturnPcs) =>
     DataRowCount(file.rows) = Len(data_records.Time)

(* C2: every successful append_to_excel call on an existing report file    *)
(* adds exactly one row at index (row count + 1), holding the four field   *)
(* values of the last Reading passed in, and leaves every earlier row      *)
(* unchanged.                                                              *)
C2_AppendsExactlyLastReading ==
  (pc \in ReturnPcs /\ call.existed) =>
     LET n == Len(call.pre.rows) IN
       /\ Len(file.rows) = n + 1
       /\ file.rows[n + 1].kind = "data"
       /\ file.rows[n + 1].cells = <<Last(call.df.Time), Last(call.df.Temperature),
                                     Last(call.df.Humidity), Last(call.df.Pressure)>>
       /\ \A i \in 1..n : file.rows[i] = call.pre.rows[i]

C2_Witness ==
  /\ pc = "L163"
  /\ call.existed
  /\ Len(call.pre.rows) >= 2
  /\ FrameLen(call.df) >= 2

(* C3: starting from an absent report file, the persisted report never     *)
(* holds more than one embedded image.                                     *)
C3_AtMostOneImage == startAbsent => Len(file.images) <= 1

C3_Witness ==
  /\ startAbsent
  /\ pc \in ReturnPcs
  /\ call.existed
  /\ Len(call.pre.images) = 1
  /\ Len(file.images) = 1
  /\ file.images[1] # call.pre.images[1]

(* C4: starting with no report file, every successful write, the one that  *)
(* creates the file included, leaves exactly one embedded chart rendered   *)
(* from the full record set passed to that call.                           *)
C4_OneChartAfterEveryWrite ==
  (startAbsent /\ pc \in ReturnPcs) =>
     /\ Len(file.images) = 1
     /\ file.images[1].fig = create_scatter_plots(call.df)

(* C5: when an interrupt is received the Report Writer is invoked exactly  *)
(* one more time (the final write) before the program terminates.          *)
C5_ExactlyOneFinalWrite ==
  (interrupted /\ pc \in {"done", "crashed"}) => nFinal = 1

(* C6: an exception other than an interrupt raised in the loop body is     *)
(* caught by the outermost handler and logged, the loop ends, no sample    *)
(* and no Report Writer call follows, and the record set keeps the         *)
(* reading whose write failed.                                             *)
Errored == pc = "L176" \/ logged

C6_Step ==
  /\ (pc = "L140" /\ pc' \notin {"L149", "L169"}) => pc' = "L176"
  /\ (call.caller = "loop" /\ call.status = "running" /\ call'.status = "raised")
        => pc' = "L176"
  /\ pc = "L176" => (pc' = "done" /\ logged')
  /\ Errored => /\ data_records' = data_records
                /\ nLoop' = nLoop
                /\ nFinal' = nFinal
                /\ file' = file

C6_ExceptionEndsTheRun ==
  /\ [][C6_Step]_vars
  /\ [](logged => pc = "done")
  /\ [](Errored /\ call.status = "raised" =>
           /\ call.caller = "loop"
           /\ data_records = call.df
           /\ Len(data_records.Time) = nLoop)

C6_Witness ==
  /\ logged
  /\ pc = "done"
  /\ call.status = "raised"
  /\ call.caller = "loop"
  /\ Len(data_records.Time) = 2
  /\ nFinal = 0

(* C7: whenever a Report Writer call fails, from the loop or as the final  *)
(* write on interrupt, the top-level handler logs the error before the     *)
(* program exits.                                                          *)
C7_WriterFailureIsLogged ==
  (call.status = "raised" /\ pc \in {"done", "crashed"}) => logged

(* C8: the first loop iteration takes no sample, every cadence check made  *)
(* after a sleep is true so every later iteration takes one sample, and    *)
(* consecutive samples are at least 55 seconds apart.                      *)
C8_CheckStep ==
  (pc = "L137" /\ pc' # "L169") =>
     IF iter = 0 THEN pc' = "L166" ELSE pc' = "L140"

C8_Cadence ==
  /\ [][C8_CheckStep]_vars
  /\ [](pc = "L137" /\ iter >= 1 => now >= last_record_time + record_interval)
  /\ [](pc = "L166" => /\ ~Ragged(data_records)
                       /\ Len(data_records.Time) = iter - 1)
  /\ [](\A i \in 1..(Len(data_records.Time) - 1) :
           data_records.Time[i + 1] - data_records.Time[i] >= 55)

C8_Witness ==
  /\ pc = "L166"
  /\ iter = 3
  /\ Len(data_records.Time) = 2

(* C9: for each of the three charts create_scatter_plots draws the scatter *)
(* and the mean line, and the trend line exactly when the frame has at     *)
(* least two points and that chart's metric has no missing value.          *)
C9_TrendPerMetric ==
  pc = "plotted" =>
    /\ Len(fig) = 3
    /\ \A k \in 1..3 :
         /\ {"scatter", "axhline"} \subseteq fig[k].artists
         /\ fig[k].scatter = df[Columns[k + 1]]
         /\ ("trend" \in fig[k].artists) <=>
               (/\ Len(df.Time) >= 2
                /\ \A i \in 1..Len(df.Time) : df[Columns[k + 1]][i] # NaN)

C9_Witness ==
  /\ pc = "plotted"
  /\ Len(df.Time) = 2
  /\ df.Temperature[1] = NaN
  /\ "trend" \notin fig[1].artists
  /\ "trend" \in fig[2].artists
  /\ "trend" \in fig[3].artists

(* C10: an append_to_excel call on an existing file that fails before the  *)
(* final save leaves the persisted file as it was, since every earlier     *)
(* step changes only the in-memory workbook.                               *)
PreSavePcs == {"L94", "L95", "L106", "L109", "L113", "L117", "L124"}

C10_Step == pc \in PreSavePcs => file' = file

C10_FailureBeforeSaveKeepsFile ==
  /\ [][C10_Step]_vars
  /\ []((call.status = "raised" /\ call.existed /\ call.at \in PreSavePcs) =>
           file = call.pre)

C10_Witness ==
  /\ call.status = "raised"
  /\ call.at = "L124"
  /\ call.existed
  /\ Len(call.pre.images) = 1
  /\ FrameLen(call.df) >= 1
  /\ file = call.pre

====
